---- MODULE Spec2Model ----
(***************************************************************************)
(* WurstCore (train_c_xl.py): model assembly (setup_models), optimizer and  *)
(* warmup-scheduler assembly (setup_optimizers, setup_schedulers) and the   *)
(* training step (forward_pass, backward_pass) under gradient accumulation. *)
(***************************************************************************)
EXTENDS Integers, Sequences, FiniteSets, TLC

VARIABLES
    config,      \* ConfigDTO: the fields the modelled methods read
    disk,        \* checkpoint files: payloads by path, state saved by name
    pc,          \* position of the process: which call comes next
    error,       \* exception that ended the process ("none" while alive)
    setup,       \* what setup_models did: events in order, weights seen
    models,      \* ModelsDTO returned by setup_models
    optimizers,  \* OptimizersDTO: the generator's AdamW
    schedulers,  \* SchedulersDTO: the generator's GradualWarmupScheduler
    info,        \* InfoDTO: total_steps
    data,        \* DataDTO: position of the batch iterator
    train        \* the running accumulation window and the last call

vars == <<config, disk, pc, error, setup, models, optimizers, schedulers,
          info, data, train>>

-----------------------------------------------------------------------------
(* Bounds *)

MaxAccum == 3          \* largest grad_accum_steps explored
MaxWarmup == 3         \* largest warmup_updates explored
MaxRestored == 2       \* largest total_steps restored at process start
MaxNewSteps == 2       \* optimizer steps taken by one run before it stops

-----------------------------------------------------------------------------
(* Python values *)

None == <<>>
Some(x) == <<x>>

\* Names of the parameters of every network (one tensor stands for all).
ParamKeys == {"weight"}

\* A state mapping holding tensor value v.
StateMapping(v) == [weight |-> v]

\* The same mapping nested under the key 'state_dict'.
Nested(m) == [state_dict |-> m]

\* Tensor values: 0 is a freshly constructed network's random initialisation.
RandomInit == 0
EffnetFileValue == 1
PreviewerFileValue == 2
GeneratorFileValue == 3
GeneratorSavedValue == 4
EmaSavedValue == 5

NoModel == [kind |-> "None"]

Min(a, b) == IF a < b THEN a ELSE b

-----------------------------------------------------------------------------
(* Library calls used by setup_models *)

\* torch.load(path): the payload stored in the file.
TorchLoad(path) == disk.files[path]

\* module.load_state_dict(sd), strict: the keys must be the module's own.
LoadStateDict(model, sd) ==
    IF DOMAIN sd = ParamKeys
    THEN [ok |-> TRUE, model |-> [model EXCEPT !.weights = sd]]
    ELSE [ok |-> FALSE, model |-> model]

\* ckpt if 'state_dict' not in ckpt else ckpt['state_dict']
Unwrap(ckpt) ==
    IF "state_dict" \notin DOMAIN ckpt THEN ckpt ELSE ckpt.state_dict

\* The payload handed to generator.load_state_dict: torch.load's result as is.
GeneratorPayload(ckpt) == ckpt

\* self.load_model(model, name): restores the state saved under the logical
\* name when the run has one, and returns the model.
LoadModel(model, name) ==
    IF name \in DOMAIN disk.saved
    THEN [model EXCEPT !.weights = disk.saved[name]]
    ELSE model

\* FSDP(model, ...): the sharded wrapper around the model.
FSDP(model) == [model EXCEPT !.fsdp = TRUE]

\* StageC(...) of the given size variant, randomly initialised.
StageC(variant) ==
    [kind |-> "StageC", variant |-> variant,
     weights |-> StateMapping(RandomInit), fsdp |-> FALSE, eval |-> FALSE]

\* EfficientNetEncoder() / Previewer()
Auxiliary(kind) ==
    [kind |-> kind, variant |-> "-",
     weights |-> StateMapping(RandomInit), fsdp |-> FALSE, eval |-> FALSE]

\* model.eval().requires_grad_(False)
Freeze(model) == [model EXCEPT !.eval = TRUE]

-----------------------------------------------------------------------------
(* setup_models *)

\* The if / elif / else over config.model_version.
SelectVariantDefault1B(version) ==
    IF version = "3.6B" THEN "3.6B" ELSE "1B"

SelectVariant(version) ==
    IF version = "3.6B" THEN "3.6B"
    ELSE IF version = "1B" THEN "1B"
    ELSE "ValueError"

\* Whether the EMA shadow is constructed.
WantsEma(cfg) == cfg.ema_start_iters # None

\* Lines 122-133: a frozen auxiliary network loaded from its checkpoint path.
LoadAuxiliary(kind, path) ==
    LET fresh == Auxiliary(kind)
        ckpt  == TorchLoad(path)
        res   == LoadStateDict(fresh, Unwrap(ckpt))
    IN  [ok |-> res.ok, model |-> Freeze(res.model)]

\* Lines 151-153: the generator's restore, by path and then by name.
RestoreGenerator(generator) ==
    LET byPath ==
            IF config.generator_checkpoint_path # None
            THEN LoadStateDict(generator,
                     GeneratorPayload(TorchLoad(config.generator_checkpoint_path[1])))
            ELSE [ok |-> TRUE, model |-> generator]
    IN  [ok |-> byPath.ok,
         afterPath |-> byPath.model,
         model |-> LoadModel(byPath.model, "generator")]

\* Line 156: the weights the EMA shadow is initialised from.
EmaSourcePreRestore(fresh, restored) == fresh.weights

EmaSource(fresh, restored) == restored.weights

\* Lines 155-158.
InitEma(ema, fresh, restored) ==
    LET copied == [ema EXCEPT !.weights = EmaSource(fresh, restored)]
    IN  [copied |-> copied, model |-> Freeze(LoadModel(copied, "generator_ema"))]

\* The whole of setup_models: the events in program order, the weights each
\* load produced, and either the ModelsDTO or the exception raised.
SetupModels ==
    LET effnet    == LoadAuxiliary("EfficientNetEncoder", config.effnet_checkpoint_path)
        previewer == LoadAuxiliary("Previewer", config.previewer_checkpoint_path)
        variant   == SelectVariant(config.model_version)
        fresh     == StageC(variant)
        freshEma  == IF WantsEma(config) THEN StageC(variant) ELSE NoModel
        restored  == RestoreGenerator(fresh)
        ema       == IF freshEma # NoModel
                     THEN InitEma(freshEma, fresh, restored.model)
                     ELSE [copied |-> NoModel, model |-> NoModel]
        generator == IF config.use_fsdp THEN FSDP(restored.model) ELSE restored.model
        emaFinal  == IF config.use_fsdp /\ ema.model # NoModel
                     THEN FSDP(ema.model) ELSE ema.model
        evAux     == <<"effnet.load_state_dict", "previewer.load_state_dict">>
        evGen     == <<"generator = StageC">>
                     \o (IF freshEma # NoModel THEN <<"generator_ema = StageC">> ELSE <<>>)
        evPath    == IF config.generator_checkpoint_path # None
                     THEN <<"generator.load_state_dict">> ELSE <<>>
        evName    == <<"load_model(generator)">>
        evEma     == IF freshEma # NoModel
                     THEN <<"generator_ema.load_state_dict", "load_model(generator_ema)">>
                     ELSE <<>>
        evFsdp    == IF config.use_fsdp
                     THEN <<"FSDP(generator)">>
                          \o (IF ema.model # NoModel THEN <<"FSDP(generator_ema)">> ELSE <<>>)
                     ELSE <<>>
        blank     == [effnet |-> NoModel, previewer |-> NoModel,
                      generator |-> NoModel, generator_ema |-> NoModel]
        seen0     == [effnet |-> NoModel, previewer |-> NoModel,
                      generator_by_path |-> NoModel, generator |-> NoModel,
                      ema_copied |-> NoModel]
    IN  IF ~effnet.ok
        THEN [error |-> "RuntimeError", events |-> <<>>, seen |-> seen0, models |-> blank]
        ELSE IF ~previewer.ok
        THEN [error |-> "RuntimeError", events |-> SubSeq(evAux, 1, 1),
              seen |-> [seen0 EXCEPT !.effnet = effnet.model], models |-> blank]
        ELSE IF variant = "ValueError"
        THEN [error |-> "ValueError", events |-> evAux,
              seen |-> [seen0 EXCEPT !.effnet = effnet.model,
                                     !.previewer = previewer.model],
              models |-> blank]
        ELSE IF ~restored.ok
        THEN [error |-> "RuntimeError", events |-> evAux \o evGen,
              seen |-> [seen0 EXCEPT !.effnet = effnet.model,
                                     !.previewer = previewer.model],
              models |-> blank]
        ELSE [error |-> "none",
              events |-> evAux \o evGen \o evPath \o evName \o evEma \o evFsdp
                         \o <<"return ModelsDTO">>,
              seen |-> [effnet |-> effnet.model, previewer |-> previewer.model,
                        generator_by_path |-> restored.afterPath,
                        generator |-> restored.model,
                        ema_copied |-> ema.copied],
              models |-> [effnet |-> effnet.model, previewer |-> previewer.model,
                          generator |-> generator, generator_ema |-> emaFinal]]

setup_models ==
    /\ pc = "setup_models"
    /\ LET r == SetupModels
       IN  /\ setup' = [events |-> r.events, seen |-> r.seen]
           /\ models' = r.models
           /\ error' = r.error
           /\ pc' = IF r.error = "none" THEN "setup_optimizers" ELSE "setup_failed"
    /\ UNCHANGED <<config, disk, optimizers, schedulers, info, data, train>>

-----------------------------------------------------------------------------
(* setup_optimizers, setup_schedulers *)

\* Learning rates are kept as multiples of lr / warmup_updates, so that the
\* configured lr itself is warmup_updates of them.
BaseLr == config.warmup_updates

\* optim.AdamW(models.generator.parameters(), lr=self.config.lr), then
\* load_optimizer, which restores the saved moment state when there is one.
SetupOptimizers ==
    [generator |->
        [lr |-> BaseLr,
         initial_lr |-> BaseLr,
         restored |-> "generator_optim" \in disk.saved_optim,
         step_calls |-> 0]]

setup_optimizers ==
    /\ pc = "setup_optimizers"
    /\ optimizers' = SetupOptimizers
    /\ pc' = "setup_schedulers"
    /\ UNCHANGED <<config, disk, error, setup, models, schedulers, info, data, train>>

\* GradualWarmupScheduler.get_lr with multiplier = 1 and no after_scheduler:
\* base_lr once last_epoch is past total_epoch, and otherwise
\* base_lr * last_epoch / total_epoch.
GetLr(sched, base) ==
    IF sched.last_epoch > sched.total_epoch
    THEN base
    ELSE (base * sched.last_epoch) \div sched.total_epoch

\* scheduler.step(): advance the position and write get_lr() into the
\* optimizer's parameter group.
SchedulerStep(so) ==
    LET moved == [so.scheduler EXCEPT !.last_epoch = @ + 1]
    IN  [scheduler |-> moved,
         optimizer |-> [so.optimizer EXCEPT !.lr = GetLr(moved, so.optimizer.initial_lr)]]

\* GradualWarmupScheduler(optimizer, multiplier=1, total_epoch=W): the base
\* class starts at last_epoch = -1 and takes its initial step on construction.
NewScheduler(optimizer, W) ==
    SchedulerStep([scheduler |-> [last_epoch |-> -1, total_epoch |-> W, step_calls |-> 0],
                   optimizer |-> optimizer])

\* Line 189: the position written into the scheduler after construction.
RestoredPosition(total_steps) == total_steps

\* Lines 188-190.
SetupSchedulers(optimizer, W, total_steps) ==
    LET built == NewScheduler(optimizer, W)
    IN  [scheduler |-> [built.scheduler EXCEPT !.last_epoch = RestoredPosition(total_steps)],
         optimizer |-> built.optimizer]

setup_schedulers ==
    /\ pc = "setup_schedulers"
    /\ LET r == SetupSchedulers(optimizers.generator, config.warmup_updates, info.total_steps)
       IN  /\ schedulers' = [generator |-> r.scheduler]
           /\ optimizers' = [generator |-> r.optimizer]
    /\ pc' = "forward_pass"
    /\ UNCHANGED <<config, disk, error, setup, models, info, data, train>>

-----------------------------------------------------------------------------
(* Training step *)

\* The training loop calls forward_pass then backward_pass once per
\* micro-batch; update is true on the last micro-batch of the window.
UpdateFlag == train.micro = config.grad_accum_steps

\* next(data.iterator)
NextBatchSkipping(iterator) == iterator + 2

NextBatch(iterator) == iterator + 1

\* Lines 194-206: one batch is pulled; the loss is the weighted batch mean
\* divided by grad_accum_steps. Nothing else of the process is written.
forward_pass ==
    /\ pc = "forward_pass"
    /\ info.total_steps - disk.info < MaxNewSteps
    /\ data' = [data EXCEPT !.iterator = NextBatch(@)]
    /\ train' = [train EXCEPT
            !.loss = Some([batch |-> NextBatch(data.iterator),
                           divided_by |-> config.grad_accum_steps]),
            !.window_start = IF train.micro = 1 THEN info.total_steps ELSE @,
            !.calls = IF train.micro = 1 THEN <<>> ELSE @,
            !.last = "forward_pass"]
    /\ pc' = "backward_pass"
    /\ UNCHANGED <<config, disk, error, setup, models, optimizers, schedulers, info>>

\* The statements of backward_pass in program order, for each branch.
Stmt(op, on) == [op |-> op, on |-> on]

ForEach(op, names) == [i \in 1..Len(names) |-> Stmt(op, names[i])]

\* optimizers.to_dict() / schedulers.to_dict(): the registered names.
OptimizerNames == <<"generator">>
SchedulerNames == <<"generator">>

UpdateBranchStepBeforeClip ==
    <<Stmt("backward", "loss_adjusted")>>
    \o ForEach("optimizer.step", OptimizerNames)
    \o <<Stmt("clip_grad_norm_", "generator")>>
    \o ForEach("scheduler.step", SchedulerNames)
    \o ForEach("zero_grad", OptimizerNames)
    \o <<Stmt("total_steps += 1", "info")>>

\* Lines 210-220.
UpdateBranch ==
    <<Stmt("backward", "loss_adjusted"),
      Stmt("clip_grad_norm_", "generator")>>
    \o ForEach("optimizer.step", OptimizerNames)
    \o ForEach("scheduler.step", SchedulerNames)
    \o ForEach("zero_grad", OptimizerNames)
    \o <<Stmt("total_steps += 1", "info")>>

\* Lines 222-223.
AccumulateBranch ==
    <<Stmt("no_sync.enter", "generator"),
      Stmt("backward", "loss_adjusted"),
      Stmt("no_sync.exit", "generator")>>

\* Lines 209-225.
BackwardProgram(update) ==
    (IF update THEN UpdateBranch ELSE AccumulateBranch)
    \o <<Stmt("return", "grad_norm")>>

\* AdamW.step on the generator's weights: every term of the update is scaled
\* by the learning rate, so a zero rate leaves the weights as they are.
OptimizerStep(weights, lr) ==
    IF lr = 0 THEN weights ELSE [weights EXCEPT !.weight = @ + 10]

\* The effect of one statement on the frame of a backward_pass call.
Exec(f, st) ==
    LET logged == [f EXCEPT !.log = Append(@, st)]
    IN  CASE st.op = "no_sync.enter" ->
               [logged EXCEPT !.no_sync = TRUE]
          [] st.op = "no_sync.exit" ->
               [logged EXCEPT !.no_sync = FALSE]
          [] st.op = "backward" ->
               [logged EXCEPT !.grads = [count |-> f.grads.count + 1,
                                         clipped |-> FALSE],
                              !.backward_in_no_sync = f.no_sync,
                              !.syncs = IF f.no_sync THEN @ ELSE @ + 1]
          [] st.op = "clip_grad_norm_" ->
               [logged EXCEPT !.grads.clipped = TRUE,
                              !.grad_norm = Some("total_norm")]
          [] st.op = "optimizer.step" ->
               [logged EXCEPT
                    !.generator.weights =
                        OptimizerStep(@, f.optimizers[st.on].lr),
                    !.optimizers[st.on].step_calls = @ + 1,
                    !.stepped_clipped = f.grads.clipped]
          [] st.op = "scheduler.step" ->
               LET r == SchedulerStep([scheduler |-> f.schedulers[st.on],
                                       optimizer |-> f.optimizers[st.on]])
               IN  [logged EXCEPT
                        !.schedulers[st.on] =
                            [r.scheduler EXCEPT !.step_calls = @ + 1],
                        !.optimizers[st.on] = r.optimizer]
          [] st.op = "zero_grad" ->
               [logged EXCEPT !.grads = [count |-> 0, clipped |-> FALSE]]
          [] st.op = "total_steps += 1" ->
               [logged EXCEPT !.total_steps = @ + 1]
          [] st.op = "return" ->
               \* reading a local that no statement assigned raises
               IF f.grad_norm = None
               THEN [logged EXCEPT !.error = "UnboundLocalError"]
               ELSE [logged EXCEPT !.returned = f.grad_norm]

RECURSIVE Run(_, _)
Run(f, program) ==
    IF program = <<>> \/ f.error # "none"
    THEN f
    ELSE Run(Exec(f, Head(program)), Tail(program))

\* The frame a backward_pass call starts in.
Frame ==
    [generator |-> models.generator, optimizers |-> optimizers,
     schedulers |-> schedulers, total_steps |-> info.total_steps,
     grads |-> train.grads, no_sync |-> FALSE, backward_in_no_sync |-> FALSE,
     syncs |-> 0, grad_norm |-> None, returned |-> None,
     stepped_clipped |-> FALSE, log |-> <<>>, error |-> "none"]

backward_pass(update) ==
    /\ pc = "backward_pass"
    /\ LET f == Run(Frame, BackwardProgram(update))
       IN  /\ models' = [models EXCEPT !.generator = f.generator]
           /\ optimizers' = f.optimizers
           /\ schedulers' = f.schedulers
           /\ info' = [info EXCEPT !.total_steps = f.total_steps]
           /\ error' = f.error
           /\ train' = [train EXCEPT
                   !.grads = f.grads,
                   !.loss = None,
                   !.micro = IF update THEN 1 ELSE @ + 1,
                   !.calls = Append(@, [update |-> update,
                                        in_no_sync |-> f.backward_in_no_sync,
                                        syncs |-> f.syncs,
                                        stepped_clipped |-> f.stepped_clipped,
                                        total_steps_before |-> info.total_steps,
                                        total_steps_after |-> f.total_steps,
                                        returned |-> f.returned,
                                        error |-> f.error,
                                        log |-> f.log]),
                   !.last = "backward_pass"]
           /\ pc' = IF f.error = "none" THEN "forward_pass" ELSE "raised"
    /\ UNCHANGED <<config, disk, setup, data>>

-----------------------------------------------------------------------------
(* The process *)

Paths == [effnet |-> "effnet.pt", previewer |-> "previewer.pt",
          generator |-> "generator.pt"]

\* A checkpoint file holds a bare state mapping or the mapping nested
\* under 'state_dict'.
Payloads(v) == {StateMapping(v), Nested(StateMapping(v))}

SavedState(names) ==
    [n \in names |-> IF n = "generator"
                     THEN StateMapping(GeneratorSavedValue)
                     ELSE StateMapping(EmaSavedValue)]

Configs ==
    [lr : {"lr"},
     warmup_updates : 1..MaxWarmup,
     grad_accum_steps : 1..MaxAccum,
     model_version : {"3.6B", "1B", "7B"},
     ema_start_iters : {None, Some(5000)},
     use_fsdp : BOOLEAN,
     effnet_checkpoint_path : {Paths.effnet},
     previewer_checkpoint_path : {Paths.previewer},
     generator_checkpoint_path : {None, Some(Paths.generator)}]

Disks ==
    {[files |-> [p \in {Paths.effnet, Paths.previewer, Paths.generator} |->
                    IF p = Paths.effnet THEN e
                    ELSE IF p = Paths.previewer THEN pv ELSE g],
      saved |-> SavedState(names),
      saved_optim |-> IF s > 0 THEN {"generator_optim"} ELSE {},
      info |-> s] :
        e \in Payloads(EffnetFileValue),
        pv \in Payloads(PreviewerFileValue),
        g \in Payloads(GeneratorFileValue),
        names \in {{}, {"generator", "generator_ema"}, {"generator"}},
        s \in 0..MaxRestored}

Init ==
    /\ config \in Configs
    /\ disk \in Disks
    /\ (disk.info = 0 => disk.saved = SavedState({}))
    /\ pc = "setup_models"
    /\ error = "none"
    /\ setup = [events |-> <<>>,
                seen |-> [effnet |-> NoModel, previewer |-> NoModel,
                          generator_by_path |-> NoModel, generator |-> NoModel,
                          ema_copied |-> NoModel]]
    /\ models = [effnet |-> NoModel, previewer |-> NoModel,
                 generator |-> NoModel, generator_ema |-> NoModel]
    /\ optimizers = [generator |-> [lr |-> 0, initial_lr |-> 0,
                                    restored |-> FALSE, step_calls |-> 0]]
    /\ schedulers = [generator |-> [last_epoch |-> -1, total_epoch |-> 0,
                                    step_calls |-> 0]]
    /\ info = [total_steps |-> disk.info]
    /\ data = [iterator |-> 0]
    /\ train = [micro |-> 1, window_start |-> disk.info, calls |-> <<>>,
                grads |-> [count |-> 0, clipped |-> FALSE],
                loss |-> None, last |-> "none"]

Next ==
    \/ setup_models
    \/ setup_optimizers
    \/ setup_schedulers
    \/ forward_pass
    \/ backward_pass(UpdateFlag)

Spec == Init /\ [][Next]_vars

-----------------------------------------------------------------------------
(* Helpers of the properties *)

SetupReturned == pc \notin {"setup_models", "setup_failed"}

Training == pc \in {"forward_pass", "backward_pass", "raised"}

\* The accumulation window that was started has run to its end: its last
\* micro-batch returned, or one of its calls raised and ended the run.
WindowOver ==
    /\ train.calls # <<>>
    /\ \/ pc = "forward_pass" /\ train.micro = 1
       \/ pc = "raised"

Positions(seq, op) == {i \in DOMAIN seq : seq[i].op = op}

AllBefore(A, B) == \A a \in A, b \in B : a < b

Before(events, a, b) ==
    \A i, j \in DOMAIN events : events[i] = a /\ events[j] = b => i < j

\* A freshly constructed warmup scheduler (on a freshly constructed
\* optimizer) stepped n times.
RECURSIVE StepTimes(_, _)
StepTimes(so, n) == IF n = 0 THEN so ELSE StepTimes(SchedulerStep(so), n - 1)

FreshStepped(n) ==
    StepTimes(NewScheduler(SetupOptimizers.generator, config.warmup_updates), n)

-----------------------------------------------------------------------------
(* Properties *)

\* C1: an accumulation window of N micro-batches (update false on the first
\* N-1 calls, true on the last) leaves total_steps exactly one above its
\* value at the start of the window, and no call with update = false
\* increases it.
C1_WindowAddsOneStep ==
    /\ WindowOver => info.total_steps = train.window_start + 1
    /\ \A i \in DOMAIN train.calls :
           ~train.calls[i].update =>
               train.calls[i].total_steps_after = train.calls[i].total_steps_before

\* C2: in an accumulation window gradients are synchronised exactly once, on
\* the last micro-batch: every call with update = false back-propagates inside
\* no_sync and the call with update = true back-propagates outside it.
C2_OneSyncPerWindow ==
    /\ \A i \in DOMAIN train.calls :
           train.calls[i].in_no_sync = ~train.calls[i].update
    /\ WindowOver =>
           /\ Len(train.calls) = config.grad_accum_steps
           /\ {i \in DOMAIN train.calls : train.calls[i].syncs > 0}
                  = {config.grad_accum_steps}

\* C3: a logical step with accumulation factor 3 from total_steps = 0 ends
\* with one step() call on every optimizer and on every scheduler and with
\* total_steps = 1; after complete windows the step() calls on each optimizer
\* and each scheduler equal the increase of total_steps.
C3_OneStepPerLogicalStep ==
    WindowOver =>
        /\ \A i \in DOMAIN OptimizerNames :
               optimizers[OptimizerNames[i]].step_calls = info.total_steps - disk.info
        /\ \A i \in DOMAIN SchedulerNames :
               schedulers[SchedulerNames[i]].step_calls = info.total_steps - disk.info
        /\ (config.grad_accum_steps = 3 /\ train.window_start = 0) =>
               /\ info.total_steps = 1
               /\ optimizers.generator.step_calls = 1
               /\ schedulers.generator.step_calls = 1

\* C4: the scheduler returned by setup_schedulers, and the learning rate it
\* has put into effect in the optimizer, are those of a fresh scheduler
\* stepped total_steps times, at the resume and after every later step.
C4_ResumeEqualsUninterrupted ==
    Training =>
        LET ref == FreshStepped(info.total_steps)
        IN  /\ schedulers.generator.last_epoch = ref.scheduler.last_epoch
            /\ optimizers.generator.lr = ref.optimizer.lr

\* C5: with a model_version other than '3.6B' and '1B', setup_models raises,
\* returns no models, constructs no generator and no EMA shadow, and no
\* forward_pass or backward_pass ever runs.
C5_UnknownVersionIsFatal ==
    (config.model_version \notin {"3.6B", "1B"} /\ pc # "setup_models") =>
        /\ pc = "setup_failed"
        /\ error = "ValueError"
        /\ models.generator = NoModel /\ models.generator_ema = NoModel
        /\ models.effnet = NoModel /\ models.previewer = NoModel
        /\ \A i \in DOMAIN setup.events :
               setup.events[i] \notin {"generator = StageC", "generator_ema = StageC",
                                       "return ModelsDTO"}
        /\ train.last = "none" /\ train.calls = <<>> /\ data.iterator = 0

C5_Witness ==
    /\ config.model_version = "7B"
    /\ pc = "setup_failed"
    /\ Len(setup.events) = 2

\* C6: each checkpoint loaded by path (encoder, previewer, generator resume
\* checkpoint) loads, with the same weights, from a bare state mapping and
\* from that mapping nested under 'state_dict'.
C6_BothPayloadFormsLoad ==
    (pc # "setup_models" /\ config.model_version \in {"3.6B", "1B"}) =>
        /\ setup.seen.effnet # NoModel
        /\ setup.seen.effnet.weights = StateMapping(EffnetFileValue)
        /\ setup.seen.previewer # NoModel
        /\ setup.seen.previewer.weights = StateMapping(PreviewerFileValue)
        /\ config.generator_checkpoint_path # None =>
               /\ error = "none"
               /\ setup.seen.generator_by_path.weights = StateMapping(GeneratorFileValue)

\* C7: setup_models returns an EMA shadow exactly when ema_start_iters is not
\* None; the shadow has the generator's size variant, is initialised from the
\* generator's weights as they are after the generator's restore (never from
\* its random initialisation when a restore took place), and is initialised
\* before any sharded wrapping.
C7_EmaFromRestoredGenerator ==
    SetupReturned =>
        /\ (models.generator_ema # NoModel) <=> (config.ema_start_iters # None)
        /\ models.generator_ema # NoModel =>
               /\ models.generator_ema.variant = models.generator.variant
               /\ setup.seen.ema_copied.weights = setup.seen.generator.weights
               /\ (config.generator_checkpoint_path # None
                     \/ "generator" \in DOMAIN disk.saved) =>
                      setup.seen.ema_copied.weights # StateMapping(RandomInit)
               /\ ~setup.seen.ema_copied.fsdp
               /\ Before(setup.events, "generator.load_state_dict",
                         "generator_ema.load_state_dict")
               /\ Before(setup.events, "load_model(generator)",
                         "generator_ema.load_state_dict")
               /\ Before(setup.events, "generator_ema.load_state_dict",
                         "FSDP(generator)")
               /\ Before(setup.events, "generator_ema.load_state_dict",
                         "FSDP(generator_ema)")

C7_Witness ==
    /\ SetupReturned
    /\ models.generator_ema # NoModel
    /\ config.generator_checkpoint_path # None
    /\ config.use_fsdp
    /\ setup.seen.ema_copied.weights = StateMapping(GeneratorFileValue)

\* C8: a forward_pass call advances the data iterator by exactly one batch
\* and leaves the generator's parameters, the optimizer, the scheduler and
\* total_steps as they were; the generator's parameters change only in a
\* backward_pass call with update = true.
C8_ForwardFrame ==
    [][ /\ (pc = "forward_pass" /\ pc' = "backward_pass") =>
              /\ data'.iterator = data.iterator + 1
              /\ models'.generator = models.generator
              /\ optimizers' = optimizers
              /\ schedulers' = schedulers
              /\ info'.total_steps = info.total_steps
        /\ (Training /\ models'.generator.weights # models.generator.weights) =>
              /\ pc = "backward_pass"
              /\ train'.calls[Len(train'.calls)].update
      ]_vars

C8_Witness ==
    /\ train.last = "backward_pass"
    /\ data.iterator = 2
    /\ models.generator.weights # setup.seen.generator.weights

\* C9: in every backward_pass call with update = true the order is:
\* back-propagation, clipping of the gradient norm, step of every optimizer,
\* step of every scheduler, zeroing of every optimizer's gradients, increment
\* of total_steps by one; the clipping is always there and precedes the first
\* optimizer step, and no scheduler steps before all optimizers have stepped.
C9_UpdateOrder ==
    \A c \in DOMAIN train.calls :
        train.calls[c].update =>
            LET log   == train.calls[c].log
                back  == Positions(log, "backward")
                clip  == Positions(log, "clip_grad_norm_")
                ostep == Positions(log, "optimizer.step")
                sstep == Positions(log, "scheduler.step")
                zero  == Positions(log, "zero_grad")
                inc   == Positions(log, "total_steps += 1")
            IN  /\ back = {1}
                /\ Cardinality(clip) = 1
                /\ Cardinality(ostep) = Len(OptimizerNames)
                /\ Cardinality(sstep) = Len(SchedulerNames)
                /\ Cardinality(zero) = Len(OptimizerNames)
                /\ Cardinality(inc) = 1
                /\ AllBefore(back, clip)
                /\ AllBefore(clip, ostep)
                /\ AllBefore(ostep, sstep)
                /\ AllBefore(sstep, zero)
                /\ AllBefore(zero, inc)
                /\ train.calls[c].stepped_clipped
                /\ train.calls[c].total_steps_after
                       = train.calls[c].total_steps_before + 1

C9_Witness ==
    /\ train.calls # <<>>
    /\ train.calls[Len(train.calls)].update
    /\ Len(train.calls[Len(train.calls)].log) = 7

\* C10: backward_pass returns a gradient-norm value without raising for both
\* values of update, so that after a call with update = false the next
\* micro-batch of the window can run.
C10_BackwardPassReturns ==
    \A i \in DOMAIN train.calls :
        /\ train.calls[i].error = "none"
        /\ train.calls[i].returned # None

====
